---- MODULE Spec2Model ----
(***************************************************************************)
(* Model of silence.py: the preset manager (class PRESET) and main(), the  *)
(* session that flags a recording: it resolves the presets, marks the      *)
(* recording as being flagged, launches the pipeline tail | mythffmpeg |   *)
(* silence and turns the analyzer's tagged lines into break marks and      *)
(* player notifications until the analyzer's output reaches end-of-stream. *)
(*                                                                         *)
(* Text is modelled as a sequence of one-character strings, so that        *)
(* split, strip, findall, int and str are computed as Python computes them.*)
(***************************************************************************)
EXTENDS Integers, Sequences, FiniteSets, TLC

\* Number of lines the analyzer writes in one session.
MaxLines == 3

\* Python's None (a one-token text no string of characters equals)
None == <<"None">>

----------------------------------------------------------------------------
(* Text helpers *)

Digits == <<"0", "1", "2", "3", "4", "5", "6", "7", "8", "9">>

IsDigit(c) == \E i \in 1..10 : Digits[i] = c

DigitVal(c) == (CHOOSE i \in 1..10 : Digits[i] = c) - 1

\* line.split(sep, 1): at most one split, at the first occurrence of sep
Split1(s, sep) ==
    IF \E i \in 1..Len(s) : s[i] = sep
    THEN LET i == CHOOSE k \in 1..Len(s) :
                      s[k] = sep /\ \A j \in 1..(k - 1) : s[j] # sep
         IN  <<SubSeq(s, 1, i - 1), SubSeq(s, i + 1, Len(s))>>
    ELSE <<s>>

\* msg.rstrip('\n')
RECURSIVE RStripNl(_)
RStripNl(s) ==
    IF s # <<>> /\ s[Len(s)] = "\n" THEN RStripNl(SubSeq(s, 1, Len(s) - 1)) ELSE s

\* length of the run of digits that starts at position i of s
RECURSIVE RunLen(_, _)
RunLen(s, i) == IF i <= Len(s) /\ IsDigit(s[i]) THEN 1 + RunLen(s, i + 1) ELSE 0

\* re.findall('\d+', s) on the text from position i on: the maximal runs of
\* decimal digits, left to right
RECURSIVE FindAllFrom(_, _)
FindAllFrom(s, i) ==
    IF i > Len(s) THEN <<>>
    ELSE IF IsDigit(s[i])
         THEN LET n == RunLen(s, i)
              IN  <<SubSeq(s, i, i + n - 1)>> \o FindAllFrom(s, i + n)
         ELSE FindAllFrom(s, i + 1)

FindAllDigits(s) == FindAllFrom(s, 1)

\* int(d) of a run of decimal digits
RECURSIVE ToInt(_)
ToInt(d) ==
    IF d = <<>> THEN 0 ELSE 10 * ToInt(SubSeq(d, 1, Len(d) - 1)) + DigitVal(d[Len(d)])

\* str(n) of a non-negative integer
RECURSIVE Str(_)
Str(n) == IF n < 10 THEN <<Digits[n + 1]>> ELSE Str(n \div 10) \o <<Digits[(n % 10) + 1]>>

\* sep.join(items)
RECURSIVE Join(_, _)
Join(items, sep) ==
    IF items = <<>> THEN <<>>
    ELSE IF Len(items) = 1 THEN items[1]
    ELSE items[1] \o sep \o Join(Tail(items), sep)

\* s.replace(old, new) for a one-character old
Replace(s, old, new) == [i \in 1..Len(s) |-> IF s[i] = old THEN new ELSE s[i]]

----------------------------------------------------------------------------
(* More text helpers, used by the preset manager *)

IsSpace(c) == c \in {" ", "\t", "\n", "\r"}

\* s.strip()
RECURSIVE LStrip(_)
LStrip(s) == IF s # <<>> /\ IsSpace(s[1]) THEN LStrip(Tail(s)) ELSE s

RECURSIVE RStrip(_)
RStrip(s) ==
    IF s # <<>> /\ IsSpace(s[Len(s)]) THEN RStrip(SubSeq(s, 1, Len(s) - 1)) ELSE s

Strip(s) == LStrip(RStrip(s))

\* s.split(sep): every occurrence of sep splits
RECURSIVE Split(_, _)
Split(s, sep) ==
    LET parts == Split1(s, sep)
    IN  IF Len(parts) = 1 THEN parts ELSE <<parts[1]>> \o Split(parts[2], sep)

Upper == <<"A", "B", "C", "D", "E", "F", "G", "H", "I", "J", "K", "L", "M",
           "N", "O", "P", "Q", "R", "S", "T", "U", "V", "W", "X", "Y", "Z">>
Lower == <<"a", "b", "c", "d", "e", "f", "g", "h", "i", "j", "k", "l", "m",
           "n", "o", "p", "q", "r", "s", "t", "u", "v", "w", "x", "y", "z">>

\* c.lower()
LowerChar(c) ==
    IF \E i \in 1..26 : Upper[i] = c
    THEN Lower[CHOOSE i \in 1..26 : Upper[i] = c]
    ELSE c

LowerStr(s) == [i \in 1..Len(s) |-> LowerChar(s[i])]

----------------------------------------------------------------------------
(* Numbers.  A Python number is <<kind, h>>: kind "int" or "float" with h   *)
(* its value in hundredths, or the floats <<"nan", 0>>, <<"inf", 1>> and    *)
(* <<"inf", -1>>.                                                           *)

PyInt(n) == <<"int", 100 * n>>
PyFloat(h) == <<"float", h>>
ValueError == <<"ValueError">>

AllDigits(s) == \A i \in 1..Len(s) : IsDigit(s[i])

\* the first two decimals of a run of fraction digits, in hundredths
Hundredths(d) ==
    IF d = <<>> THEN 0
    ELSE IF Len(d) = 1 THEN 10 * DigitVal(d[1])
    ELSE 10 * DigitVal(d[1]) + DigitVal(d[2])

\* float(v) of a string: surrounding whitespace is ignored; an optional sign,
\* then nan, inf or infinity in any case, or digits with an optional point.
\* (Exponents are not modelled: no input of the model carries one.)
float(v) ==
    LET s    == Strip(v)
        neg  == s # <<>> /\ s[1] = "-"
        body == IF s # <<>> /\ s[1] \in {"-", "+"} THEN Tail(s) ELSE s
        sgn  == IF neg THEN -1 ELSE 1
        low  == LowerStr(body)
        num  == Split1(body, ".")
        ip   == num[1]
        fp   == IF Len(num) = 2 THEN num[2] ELSE <<>>
    IN  IF low = <<"n", "a", "n">> THEN <<"nan", 0>>
        ELSE IF low = <<"i", "n", "f">>
                \/ low = <<"i", "n", "f", "i", "n", "i", "t", "y">> THEN <<"inf", sgn>>
        ELSE IF AllDigits(ip) /\ AllDigits(fp) /\ (ip # <<>> \/ fp # <<>>)
             THEN PyFloat(sgn * (100 * ToInt(ip) + Hundredths(fp)))
        ELSE ValueError

\* str(x) of a number (Python 2: an int prints without a point, a float
\* always with one)
StrNum(x) ==
    LET h    == x[2]
        a    == IF h < 0 THEN -h ELSE h
        sign == IF h < 0 THEN <<"-">> ELSE <<>>
        frac == IF a % 100 = 0 THEN <<"0">>
                ELSE IF a % 10 = 0 THEN Str((a % 100) \div 10)
                ELSE <<Digits[((a % 100) \div 10) + 1], Digits[(a % 10) + 1]>>
    IN  CASE x[1] = "int"   -> sign \o Str(a \div 100)
          [] x[1] = "float" -> sign \o Str(a \div 100) \o <<".">> \o frac
          [] x[1] = "nan"   -> <<"n", "a", "n">>
          [] x[1] = "inf"   -> sign \o <<"i", "n", "f">>

----------------------------------------------------------------------------
(* Logging: class MYLOG *)

INFO == "INFO"
DEBUG == "DEBUG"
ERR == "ERR"
WARNING == "WARNING"

\* MYLOG.log(msg, level): one record of the log
LogEntry(msg, lvl) == [level |-> lvl, msg |-> <<"mythcommflag: ">> \o RStripNl(msg)]

----------------------------------------------------------------------------
(* The inputs of a session *)

\* Lines the analyzer may write (each as readline() returns it)
LineCutA ==
    <<"c", "u", "t", "@", "f", "o", "u", "n", "d", " ", "1", "0", "0", " ",
    "2", "5", "0", "\n">>
LineCutB ==
    <<"c", "u", "t", "@", "f", "o", "u", "n", "d", " ", "4", "0", "0", " ",
    "5", "0", "0", "\n">>
LineCutC ==
    <<"c", "u", "t", "@", "f", "o", "u", "n", "d", " ", "9", "0", "0", " ",
    "9", "5", "0", "\n">>
LineCutRev ==
    <<"c", "u", "t", "@", "a", "@", "0", "9", " ", "5", "\n">>
LineCutOne ==
    <<"c", "u", "t", "@", "f", "r", "a", "m", "e", " ", "7", "\n">>
LineCutNone ==
    <<"c", "u", "t", "@", "n", "o", "n", "e", "\n">>
LineBogus ==
    <<"b", "o", "g", "u", "s", "@", "h", "e", "l", "l", "o", "\n">>
LineInfo ==
    <<"i", "n", "f", "o", "@", "r", "e", "a", "d", "y", "\n">>
LineNoAt ==
    <<"h", "e", "l", "l", "o", "\n">>

Lines == {LineCutA, LineCutB, LineCutC, LineCutRev, LineCutOne, LineCutNone,
          LineBogus, LineInfo, LineNoAt}

\* Responses of the backend to a MESSAGE command
Responses == {"OK", "FAILED"}

\* The recording and its channel
Title ==
    <<"N", "e", "w", "s", " ", "a", "t", " ", "T", "e", "n">>
Subtitle ==
    <<"L", "a", "t", "e">>
Callsign ==
    <<"B", "B", "C", "1">>
ChanId ==
    <<"1", "0", "0", "1">>
StartTime ==
    <<"2020-01-01", " ", "20:00:00">>

\* --preset values
OverrideA ==
    <<"-", "7", "0", ",", " ", ",", "x">>

OverrideSeven ==
    <<"1", ",", "2", ",", "3", ",", "4", ",", "5", ",", "6", ",", "7">>
OverrideBad ==
    <<"x">>
OverrideNan ==
    <<"n", "a", "n">>
OverrideInf ==
    <<"0", ".", "5", ",", "-", "i", "n", "f">>
OverrideEmpty == <<>>

Overrides == {OverrideA, OverrideSeven, OverrideBad, OverrideNan, OverrideInf,
              OverrideEmpty}

\* --presetfile values and the files they name
FileNews == <<"news.presets">>
FileBadRe == <<"badre.presets">>
FileLate == <<"late.presets">>
FileNoMatch == <<"nomatch.presets">>
FileMissing == <<"missing.presets">>

Files == {FileNews, FileBadRe, FileLate, FileNoMatch, FileMissing}

\* The command lines of the sessions: mode says whether a job id (job), a
\* channel and start time (manual) or neither is given
CommandLines ==
    {[mode |-> "job",     preset |-> None,      presetfile |-> None],
     [mode |-> "job",     preset |-> None,      presetfile |-> FileNews],
     [mode |-> "job",     preset |-> None,      presetfile |-> FileBadRe],
     [mode |-> "manual",  preset |-> None,      presetfile |-> FileBadRe],
     [mode |-> "manual",  preset |-> OverrideA, presetfile |-> FileBadRe],
     [mode |-> "neither", preset |-> None,      presetfile |-> None]}

FileNewsLines ==
    <<<<"#", " ", "p", "r", "e", "s", "e", "t", "s", "\n">>,
      <<"^", "S", "p", "o", "r", "t", ",", "-", "6", "0", "\n">>,
      <<"^", "N", "e", "w", "s", ",", "-", "7", "0", ",", ",", ",", ",", ",", "\n">>,
      <<"n", "e", "w", "s", ",", "-", "5", "0", "\n">>>>

FileBadReLines ==
    <<<<"*", "b", "a", "d", ",", "-", "6", "0", "\n">>>>

\* the callsign in small letters matches; the line after it is malformed
FileLateLines ==
    <<<<"b", "b", "c", ",", " ", "0", ".", "5", " ", ",", ",", "7", "\n">>,
      <<"*", "b", "a", "d", ",", "-", "6", "0", "\n">>,
      <<"B", "B", "C", ",", "-", "5", "0", "\n">>>>

\* a blank line, a comment and a pattern that matches neither
FileNoMatchLines ==
    <<<<" ", " ", "\n">>,
      <<" ", " ", "#", " ", "^", "N", "e", "w", "s", ",", "-", "7", "0", "\n">>,
      <<"^", "S", "p", "o", "r", "t", ",", "-", "6", "0", "\n">>>>

\* open(filename): the lines of the file
FileLines(filename) ==
    CASE filename = FileNews    -> FileNewsLines
      [] filename = FileBadRe   -> FileBadReLines
      [] filename = FileLate    -> FileLateLines
      [] filename = FileNoMatch -> FileNoMatchLines
      [] OTHER                  -> None

----------------------------------------------------------------------------
(* class PRESET *)

argname == <<"thresh", "minquiet", "mindetect", "minbreak", "maxsep", "pad">>
argval == <<PyInt(-75), PyFloat(16), PyInt(6), PyInt(120), PyInt(120), PyFloat(48)>>

\* collections.OrderedDict(list(zip(argname, argval))): the pairs <<key, value>>
\* in insertion order
DefaultArgdict == [i \in 1..Len(argname) |-> <<argname[i], argval[i]>>]

HasKey(dict, k) == \E i \in 1..Len(dict) : dict[i][1] = k

\* an update that adds the new value to the one the key has
RECURSIVE UpdateAdd(_, _)
UpdateAdd(dict, pairs) ==
    IF pairs = <<>> THEN dict
    ELSE LET k == pairs[1][1]
             v == pairs[1][2]
         IN  UpdateAdd([i \in 1..Len(dict) |->
                           IF dict[i][1] = k
                           THEN <<k, <<"float", dict[i][2][2] + v[2]>>>>
                           ELSE dict[i]],
                       Tail(pairs))

\* OrderedDict.update(pairs): a known key keeps its place and takes the new
\* value, a new key is appended
RECURSIVE Update(_, _)
Update(dict, pairs) ==
    IF pairs = <<>> THEN dict
    ELSE LET k == pairs[1][1]
             v == pairs[1][2]
             d == IF HasKey(dict, k)
                  THEN [i \in 1..Len(dict) |-> IF dict[i][1] = k THEN <<k, v>> ELSE dict[i]]
                  ELSE Append(dict, <<k, v>>)
         IN  Update(d, Tail(pairs))

\* s[a:b], Python's slice (0-based, b excluded, clipped to the length)
Slice(s, a, b) == SubSeq(s, a + 1, IF b < Len(s) THEN b ELSE Len(s))

\* a _validate that takes an empty field for zero
validateEmptyZero(k, v) ==
    IF v = None THEN <<k, None>>
    ELSE IF v = <<>> THEN <<k, PyFloat(0)>>
    ELSE IF float(v) # ValueError THEN <<k, float(v)>>
    ELSE <<k, None>>

\* PRESET._validate(k, v): the pair <<k, float(v)>>, or <<k, None>> when v is
\* missing, empty or no number
validate(k, v) ==
    IF v = None \/ v = <<>> THEN <<k, None>>
    ELSE IF float(v) # ValueError THEN <<k, float(v)>>
    ELSE <<k, None>>

\* what _validate logs for the field v of parameter k
validateLog(k, v) ==
    IF v # None /\ v # <<>> /\ float(v) = ValueError
    THEN <<LogEntry(<<"Preset ", k, " (">> \o v \o <<") is invalid - will use default">>,
                    ERR)>>
    ELSE <<>>

\* map(self._validate, self.argname, vals) of Python 2: the shorter list is
\* padded with None
MapValidate(vals) ==
    LET n == IF Len(vals) > Len(argname) THEN Len(vals) ELSE Len(argname)
    IN  [i \in 1..n |-> validate(IF i <= Len(argname) THEN argname[i] ELSE None,
                                 IF i <= Len(vals) THEN vals[i] ELSE None)]

RECURSIVE MapValidateLog(_, _)
MapValidateLog(vals, i) ==
    IF i > Len(vals) \/ i > Len(argname) THEN <<>>
    ELSE validateLog(argname[i], vals[i]) \o MapValidateLog(vals, i + 1)

\* (v for v in validargs if v[1] is not None)
Supplied(validargs) == SelectSeq(validargs, LAMBDA v : v[2] # None)

\* [i.strip() for i in line.split(',')]
Fields(line) == LET parts == Split(line, ",") IN [i \in 1..Len(parts) |-> Strip(parts[i])]

\* a getFromArg that takes the first field for a name, as a preset file has it
getFromArgSkipFirst(dict, line) ==
    IF line # <<>>
    THEN Update(dict, Supplied(MapValidate(Slice(Fields(line), 1, 1 + Len(argname)))))
    ELSE dict

\* PRESET.getFromArg(line): the store after the call
getFromArg(dict, line) ==
    IF line # <<>>
    THEN Update(dict, Supplied(MapValidate(Slice(Fields(line), 0, Len(argname)))))
    ELSE dict

getFromArgLog(line) ==
    <<LogEntry(<<"Parsing presets from \"">> \o line \o <<"\"">>, DEBUG)>>
    \o (IF line # <<>> THEN MapValidateLog(Slice(Fields(line), 0, Len(argname)), 1)
        ELSE <<>>)

\* re.compile(p) raises re.error.  The patterns of the model are literal
\* characters, '.', and a leading '^'; a repeat with nothing to repeat, an
\* unclosed group and an unclosed set are the malformed ones.
ReBody(p) == IF p # <<>> /\ p[1] = "^" THEN Tail(p) ELSE p

ReError(p) ==
    LET b == ReBody(p)
    IN  \/ b # <<>> /\ b[1] \in {"*", "+", "?"}
        \/ (\E i \in 1..Len(b) : b[i] = "(") /\ ~(\E i \in 1..Len(b) : b[i] = ")")
        \/ (\E i \in 1..Len(b) : b[i] = "[") /\ ~(\E i \in 1..Len(b) : b[i] = "]")

\* re.compile(p, re.IGNORECASE).match(text): the pattern matches at the start
\* of the text
ReMatch(p, text) ==
    LET b == ReBody(p)
    IN  /\ Len(b) <= Len(text)
        /\ \A i \in 1..Len(b) : b[i] = "." \/ LowerChar(b[i]) = LowerChar(text[i])

\* a scan without the break: every matching line is applied, the last one wins
RECURSIVE ScanPresetsNoBreak(_, _, _, _)
ScanPresetsNoBreak(dict, lines, title, callsign) ==
    IF lines = <<>>
    THEN [raised |-> FALSE, argdict |-> dict, log |-> <<>>]
    ELSE LET line == Strip(Head(lines))
             vals == Fields(line)
         IN  IF line = <<>> \/ line[1] = "#"
             THEN ScanPresetsNoBreak(dict, Tail(lines), title, callsign)
             ELSE IF ReError(vals[1])
             THEN [raised |-> TRUE, argdict |-> dict, log |-> <<>>]
             ELSE IF ReMatch(vals[1], title) \/ ReMatch(vals[1], callsign)
             THEN LET rest == ScanPresetsNoBreak(
                                  Update(dict, Supplied(MapValidate(
                                      Slice(vals, 1, 1 + Len(argname))))),
                                  Tail(lines), title, callsign)
                  IN  [raised |-> rest.raised, argdict |-> rest.argdict,
                       log |-> <<LogEntry(<<"Using preset \"">> \o line \o <<"\"">>,
                                          INFO)>> \o rest.log]
             ELSE ScanPresetsNoBreak(dict, Tail(lines), title, callsign)

\* The for loop of getFromFile over the lines of the file: the store, what is
\* logged, and whether re.compile raised
RECURSIVE ScanPresets(_, _, _, _)
ScanPresets(dict, lines, title, callsign) ==
    IF lines = <<>>
    THEN [raised |-> FALSE, argdict |-> dict,
          log |-> <<LogEntry(<<"No preset found for \"">> \o title \o <<"\" or \"">>
                             \o callsign \o <<"\"">>, INFO)>>]
    ELSE LET line == Strip(Head(lines))
         IN  IF line # <<>> /\ line[1] # "#"
             THEN LET vals == Fields(line)
                  IN  IF ReError(vals[1])
                      THEN [raised |-> TRUE, argdict |-> dict, log |-> <<>>]
                      ELSE IF ReMatch(vals[1], title) \/ ReMatch(vals[1], callsign)
                      THEN [raised |-> FALSE,
                            argdict |-> Update(dict, Supplied(MapValidate(
                                            Slice(vals, 1, 1 + Len(argname))))),
                            log |-> <<LogEntry(<<"Using preset \"">> \o line \o <<"\"">>,
                                               INFO)>>
                                    \o MapValidateLog(Slice(vals, 1, 1 + Len(argname)), 1)]
                      ELSE ScanPresets(dict, Tail(lines), title, callsign)
             ELSE ScanPresets(dict, Tail(lines), title, callsign)

\* PRESET.getFromFile(filename, title, callsign); a file that cannot be opened
\* (IOError) has None for lines
getFromFile(dict, filename, title, callsign) ==
    LET open == <<LogEntry(<<"Using preset file \"">> \o filename \o <<"\"">>, DEBUG)>>
    IN  IF FileLines(filename) = None
        THEN [raised |-> FALSE, argdict |-> dict,
              log |-> open \o <<LogEntry(<<"Presets file \"">> \o filename
                                         \o <<"\" not found">>, ERR)>>]
        ELSE LET r == ScanPresets(dict, FileLines(filename), title, callsign)
             IN  [raised |-> r.raised, argdict |-> r.argdict, log |-> open \o r.log]

\* PRESET.getValues(): [str(i) for i in self.argdict.values()]
getValues(dict) == [i \in 1..Len(dict) |-> StrNum(dict[i][2])]

----------------------------------------------------------------------------
(* The recording's markup and the player message (external collaborators   *)
(* of main)                                                                *)

MARK_COMM_START == 4
MARK_COMM_END == 5

\* rec.markup.getskiplist(): the (start, end) pairs of the markup, in the
\* order of the list
RECURSIVE BuildList(_, _)
BuildList(m, open) ==
    IF m = <<>> THEN <<>>
    ELSE LET e == Head(m)
         IN  IF e[2] = MARK_COMM_START /\ open = -1 THEN BuildList(Tail(m), e[1])
             ELSE IF e[2] = MARK_COMM_END /\ open # -1
                  THEN <<<<open, e[1]>>>> \o BuildList(Tail(m), -1)
             ELSE BuildList(Tail(m), open)

getskiplist(m) == BuildList(m, -1)

\* tuplelist: one (start:code, end:code) pair of texts per break
TupleList(sl) ==
    [i \in 1..Len(sl) |-> <<Str(sl[i][1]) \o <<":">> \o Str(MARK_COMM_START),
                            Str(sl[i][2]) \o <<":">> \o Str(MARK_COMM_END)>>]

\* [x for tuple in tuplelist for x in tuple]
Flatten(tl) == [i \in 1..(2 * Len(tl)) |-> tl[(i + 1) \div 2][2 - (i % 2)]]

\* a message that carries the newest break only
MesgNewest(pid, m) ==
    LET sl == getskiplist(m)
    IN  <<"COMMFLAG_UPDATE ">> \o pid \o <<" ">>
        \o Join(Flatten(TupleList(IF sl = <<>> THEN sl ELSE <<sl[Len(sl)]>>)), <<",">>)

\* mesg: the player update for the whole skip list of the markup m
Mesg(pid, m) ==
    <<"COMMFLAG_UPDATE ">> \o pid \o <<" ">>
    \o Join(Flatten(TupleList(getskiplist(m))), <<",">>)

\* A markup left by an earlier flagging of the recording
OldMarkup == <<<<10, MARK_COMM_START>>, <<20, MARK_COMM_END>>>>

----------------------------------------------------------------------------
(* main(): the state of a session *)

VARIABLES
    pc,          \* where main is: start, getrec, findfile, presets, flag,
                 \* launch1, launch2, launch3, loop, done (returned),
                 \* exit1 (sys.exit(1)) or raised (uncaught exception)
    exc,         \* the exception that ended main, "none" otherwise
    args,        \* the parsed command line
    job,         \* TRUE when main runs for a job, FALSE when job is None
    jobStatus,   \* <<status, comment>> of the job
    commflagged, \* rec.commflagged
    markup,      \* rec.markup: the <<mark, type>> entries, in list order
    argdict,     \* PRESET.argdict, the dictionary of the class
    calls,       \* the constructions of a PRESET and the calls of getFromArg
                 \* and getFromFile so far, each with the store it left
    progId,      \* the program id of the player messages
    log,         \* what has been logged
    breaks,      \* the break counter
    sent,        \* the backend commands sent, with the response to each
    p1, p2, p3,  \* the stages tail, mythffmpeg, silence: none, running, exited
    p3args,      \* the command line of the analyzer
    buffered,    \* lines written by the analyzer and not read yet
    readLines    \* the lines main has read, in order

vars == <<pc, exc, args, job, jobStatus, commflagged, markup, argdict, calls, progId,
          log, breaks, sent, p1, p2, p3, p3args, buffered, readLines>>

procs == <<p1, p2, p3, p3args, buffered>>
recvars == <<commflagged, markup>>
loopvars == <<breaks, sent, readLines>>

Init ==
    /\ pc = "start"
    /\ exc = "none"
    /\ args = [mode |-> "unparsed", preset |-> None, presetfile |-> None]
    /\ job = FALSE
    /\ jobStatus = <<"RUNNING", <<>>>>
    /\ commflagged \in {0, 1}
    /\ markup \in {<<>>, OldMarkup}
    /\ argdict = DefaultArgdict
    /\ calls = <<>>
    /\ progId = <<>>
    /\ log = <<>>
    /\ breaks = 0
    /\ sent = <<>>
    /\ p1 = "none" /\ p2 = "none" /\ p3 = "none"
    /\ p3args = <<>>
    /\ buffered = 0
    /\ readLines = <<>>

\* job.update({'status': st, 'comment': c}) when there is a job
JobUpdate(st, c) == IF job THEN <<st, c>> ELSE jobStatus

\* a test for None only, which takes the empty string for a value
TruthyNotNone(x) == x # None

\* if x: of a string or None
Truthy(x) == x # None /\ x # <<>>

\* lines 105-135: the command line, one of cmds; a job id, or a channel and a
\* start time
ParseArgsFrom(cmds) ==
    /\ pc = "start"
    /\ \E cmd \in cmds :
          /\ args' = cmd
          /\ job' = (cmd.mode = "job")
          /\ IF cmd.mode = "neither"
             THEN /\ log' = Append(log, LogEntry(
                                <<"Both chanid and starttime must be specified">>, ERR))
                  /\ pc' = "exit1"
             ELSE /\ log' = log
                  /\ pc' = "getrec"
    /\ UNCHANGED <<exc, jobStatus, argdict, calls, progId>>
    /\ UNCHANGED <<recvars, loopvars, procs>>

ParseArgs == ParseArgsFrom(CommandLines)

\* lines 137-144: the recording is found, or the session ends
GetRecording ==
    /\ pc = "getrec"
    /\ \E found \in BOOLEAN :
          IF found
          THEN /\ pc' = "findfile"
               /\ UNCHANGED <<jobStatus, log>>
          ELSE /\ jobStatus' = JobUpdate("ERRORED", <<"ERROR: Could not find recording.">>)
               /\ log' = Append(log, LogEntry(<<"Could not find recording">>, ERR))
               /\ pc' = "exit1"
    /\ UNCHANGED <<exc, args, job, argdict, calls, progId>>
    /\ UNCHANGED <<recvars, loopvars, procs>>

\* lines 146-158: the file of the recording is found in a storage group, or
\* the session ends
FindFile ==
    /\ pc = "findfile"
    /\ \E sg \in BOOLEAN :
          LET processing == <<LogEntry(<<>>, INFO),
                              LogEntry(<<"Processing: ">> \o Callsign \o <<", ">>
                                       \o StartTime \o <<", \"">> \o Title \o <<" - ">>
                                       \o Subtitle \o <<"\"">>,
                                       INFO)>>
          IN  IF sg
              THEN /\ pc' = "presets"
                   /\ log' = log \o processing
                   /\ UNCHANGED jobStatus
              ELSE /\ jobStatus' = JobUpdate("ERRORED",
                                     <<"ERROR: Local access to recording not found.">>)
                   /\ log' = log \o processing
                             \o <<LogEntry(<<"Local access to recording not found">>, ERR)>>
                   /\ pc' = "exit1"
    /\ UNCHANGED <<exc, args, job, argdict, calls, progId>>
    /\ UNCHANGED <<recvars, loopvars, procs>>

\* one entry of calls: PRESET(logger), getFromArg(arg) or getFromFile(arg, ...)
\* and the store when it returned (or raised)
Call(op, arg, store) == [op |-> op, arg |-> arg, store |-> store]

\* lines 160-171: the program id, and the presets from --preset, else from
\* --presetfile, else the defaults
ResolvePresets ==
    /\ pc = "presets"
    /\ progId' = ChanId \o <<"_">> \o Replace(StartTime, " ", "T")
    /\ IF Truthy(args.preset)
       THEN /\ argdict' = getFromArg(argdict, args.preset)
            /\ calls' = calls \o <<Call("PRESET", None, argdict),
                                   Call("getFromArg", args.preset,
                                        getFromArg(argdict, args.preset))>>
            /\ log' = log \o getFromArgLog(args.preset)
            /\ pc' = "flag"
            /\ exc' = exc
       ELSE IF Truthy(args.presetfile)
       THEN LET r == getFromFile(argdict, args.presetfile, Title, Callsign)
            IN  /\ argdict' = r.argdict
                /\ calls' = calls \o <<Call("PRESET", None, argdict),
                                       Call("getFromFile", args.presetfile, r.argdict)>>
                /\ log' = log \o r.log
                /\ pc' = IF r.raised THEN "raised" ELSE "flag"
                /\ exc' = IF r.raised THEN "re.error" ELSE exc
       ELSE /\ pc' = "flag"
            /\ calls' = Append(calls, Call("PRESET", None, argdict))
            /\ UNCHANGED <<argdict, log, exc>>
    /\ UNCHANGED <<args, job, jobStatus>>
    /\ UNCHANGED <<recvars, loopvars, procs>>

\* a flagging that leaves the old skip list in place
FlagInProgressNoPurge ==
    /\ pc = "flag"
    /\ commflagged' = 2
    /\ pc' = "launch1"
    /\ UNCHANGED <<exc, args, job, jobStatus, argdict, calls, progId, log, markup>>
    /\ UNCHANGED <<loopvars, procs>>

\* lines 173-176: purge the skip list and flag the recording as in progress
FlagInProgress ==
    /\ pc = "flag"
    /\ commflagged' = 2
    /\ markup' = <<>>
    /\ pc' = "launch1"
    /\ UNCHANGED <<exc, args, job, jobStatus, argdict, calls, progId, log>>
    /\ UNCHANGED <<loopvars, procs>>

----------------------------------------------------------------------------
(* main(): the pipeline *)

kExe_Silence == <<"/usr/local/bin/silence">>

\* "%d" % p1.pid
Pid1 == <<"pid1">>

\* subprocess.Popen raises OSError when the program cannot be started
\* line 179: tail --follow of the recording
Launch1 ==
    /\ pc = "launch1"
    /\ \E ok \in BOOLEAN :
          IF ok
          THEN p1' = "running" /\ pc' = "launch2" /\ exc' = exc
          ELSE p1' = p1 /\ pc' = "raised" /\ exc' = "OSError"
    /\ UNCHANGED <<args, job, jobStatus, argdict, calls, progId, log>>
    /\ UNCHANGED <<recvars, loopvars, p2, p3, p3args, buffered>>

\* lines 181-183: mythffmpeg reads the output of tail
Launch2 ==
    /\ pc = "launch2"
    /\ \E ok \in BOOLEAN :
          IF ok
          THEN p2' = "running" /\ pc' = "launch3" /\ exc' = exc
          ELSE p2' = p2 /\ pc' = "raised" /\ exc' = "OSError"
    /\ UNCHANGED <<args, job, jobStatus, argdict, calls, progId, log>>
    /\ UNCHANGED <<recvars, loopvars, p1, p3, p3args, buffered>>

\* lines 185-190: silence reads the output of mythffmpeg; it is given the pid
\* of tail and the presets
Launch3 ==
    /\ pc = "launch3"
    /\ \E ok \in BOOLEAN :
          IF ok
          THEN /\ p3' = "running"
               /\ p3args' = <<kExe_Silence, Pid1>> \o getValues(argdict)
               /\ pc' = "loop"
               /\ exc' = exc
          ELSE /\ UNCHANGED <<p3, p3args>>
               /\ pc' = "raised"
               /\ exc' = "OSError"
    /\ breaks' = 0
    /\ UNCHANGED <<args, job, jobStatus, argdict, calls, progId, log>>
    /\ UNCHANGED <<recvars, sent, readLines, p1, p2, buffered>>

\* The recording subsystem (or the analyzer, which is given the pid) stops tail
ExternalStop ==
    /\ p1 = "running"
    /\ p1' = "exited"
    /\ UNCHANGED <<pc, exc, args, job, jobStatus, argdict, calls, progId, log>>
    /\ UNCHANGED <<recvars, loopvars, p2, p3, p3args, buffered>>

\* mythffmpeg reads end-of-stream once tail is gone, and exits
Stage2Eof ==
    /\ p2 = "running"
    /\ p1 = "exited"
    /\ p2' = "exited"
    /\ UNCHANGED <<pc, exc, args, job, jobStatus, argdict, calls, progId, log>>
    /\ UNCHANGED <<recvars, loopvars, p1, p3, p3args, buffered>>

\* silence writes one more line to its output, which main reads
Stage3Emit ==
    /\ p3 = "running"
    /\ pc = "loop"
    /\ Len(readLines) + buffered < MaxLines
    /\ buffered' = buffered + 1
    /\ UNCHANGED <<pc, exc, args, job, jobStatus, argdict, calls, progId, log>>
    /\ UNCHANGED <<recvars, loopvars, p1, p2, p3, p3args>>

\* silence reads end-of-stream once mythffmpeg is gone, and exits
Stage3Eof ==
    /\ p3 = "running"
    /\ p2 = "exited"
    /\ p3' = "exited"
    /\ UNCHANGED <<pc, exc, args, job, jobStatus, argdict, calls, progId, log>>
    /\ UNCHANGED <<recvars, loopvars, p1, p2, p3args, buffered>>

----------------------------------------------------------------------------
(* main(): the read loop *)

TagCut == <<"c", "u", "t">>
TagInfo == <<"i", "n", "f", "o">>
TagDebug == <<"d", "e", "b", "u", "g">>
TagErr == <<"e", "r", "r">>

\* level = {'info': MYLOG.INFO, 'debug': MYLOG.DEBUG, 'err': MYLOG.ERR}
InLevel(flag) == flag \in {TagInfo, TagDebug, TagErr}

level(flag) ==
    CASE flag = TagInfo  -> INFO
      [] flag = TagDebug -> DEBUG
      [] flag = TagErr   -> ERR

\* a dispatch without the branch for unexpected flags
DispatchNoElse(flag) == IF InLevel(flag) THEN "level" ELSE "cut"

\* the branch of the loop body a flag takes
Dispatch(flag) ==
    IF flag = TagCut THEN "cut"
    ELSE IF InLevel(flag) THEN "level"
    ELSE "unexpected"

\* a markup that puts the new entry first
MarkupPrepend(m, mark, type) == <<<<mark, type>>>> \o m

\* rec.markup.append(mark, type, None)
MarkupAppend(m, mark, type) == Append(m, <<mark, type>>)

\* a counter that counts the marks, not the breaks
CountMarks(b) == b + 2

\* breaks += 1
CountBreak(b) == b + 1

\* result != 'OK'
SendFailed(result) == result # "OK"

\* what the loop logs when the backend does not answer OK
SendFailedLog(result, mesg) ==
    <<LogEntry(<<"Backend message failed, response = ", result,
                 ", message = MESSAGE[]:[]">> \o mesg, ERR)>>

\* a send whose failure ends the session
AfterSendRaise(result) == IF result # "OK" THEN "raised" ELSE "loop"

\* where main is after a notification: the send never ends the loop
AfterSend(result) == "loop"

\* lines 192-219: one line is read and handled
ReadLine ==
    /\ pc = "loop"
    /\ buffered > 0
    /\ \E line \in Lines, result \in Responses :
          LET parts == Split1(line, "@")
          IN  /\ readLines' = Append(readLines, line)
              /\ buffered' = buffered - 1
              /\ IF Len(parts) # 2
                 THEN \* flag, info = ... cannot unpack
                      /\ pc' = "raised"
                      /\ exc' = "ValueError"
                      /\ UNCHANGED <<markup, breaks, sent, log>>
                 ELSE LET flag == parts[1]
                          info == parts[2]
                      IN  CASE Dispatch(flag) = "cut" ->
                                 LET numbers == FindAllDigits(info)
                                     logged  == Append(log, LogEntry(info, INFO))
                                 IN  IF Len(numbers) = 0
                                     THEN \* numbers[0]
                                          /\ pc' = "raised"
                                          /\ exc' = "IndexError"
                                          /\ log' = logged
                                          /\ UNCHANGED <<markup, breaks, sent>>
                                     ELSE IF Len(numbers) = 1
                                     THEN \* numbers[1], after the first append
                                          /\ pc' = "raised"
                                          /\ exc' = "IndexError"
                                          /\ log' = logged
                                          /\ markup' = MarkupAppend(markup,
                                                 ToInt(numbers[1]), MARK_COMM_START)
                                          /\ UNCHANGED <<breaks, sent>>
                                     ELSE LET m == MarkupAppend(
                                                     MarkupAppend(markup,
                                                        ToInt(numbers[1]), MARK_COMM_START),
                                                     ToInt(numbers[2]), MARK_COMM_END)
                                              mesg == Mesg(progId, m)
                                          IN  /\ markup' = m
                                              /\ breaks' = CountBreak(breaks)
                                              /\ sent' = Append(sent,
                                                    [mesg |-> <<"MESSAGE[]:[]">> \o mesg,
                                                     result |-> result])
                                              /\ log' = IF SendFailed(result)
                                                        THEN logged
                                                             \o SendFailedLog(result, mesg)
                                                        ELSE logged
                                              /\ pc' = AfterSend(result)
                                              /\ exc' = IF AfterSend(result) = "raised"
                                                        THEN "BackendError" ELSE exc
                            [] Dispatch(flag) = "level" ->
                                 /\ log' = Append(log, LogEntry(info, level(flag)))
                                 /\ UNCHANGED <<pc, exc, markup, breaks, sent>>
                            [] Dispatch(flag) = "unexpected" ->
                                 /\ log' = Append(log, LogEntry(flag, WARNING))
                                 /\ UNCHANGED <<pc, exc, markup, breaks, sent>>
    /\ UNCHANGED <<args, job, jobStatus, commflagged, argdict, calls, progId>>
    /\ UNCHANGED <<p1, p2, p3, p3args>>

\* 'Detected %s adverts.' % breaks
Detected(b) == <<"Detected ">> \o Str(b) \o <<" adverts.">>

\* lines 192-193, 220-229: readline() returns '' at end-of-stream, the loop
\* ends, and the recording is flagged and the result reported
ReadEof ==
    /\ pc = "loop"
    /\ buffered = 0
    /\ p3 = "exited"
    /\ commflagged' = 1
    /\ jobStatus' = JobUpdate("272", Detected(breaks))
    /\ log' = Append(log, LogEntry(Detected(breaks), INFO))
    /\ pc' = "done"
    /\ UNCHANGED <<exc, args, job, markup, argdict, calls, progId>>
    /\ UNCHANGED <<loopvars, procs>>

Next ==
    \/ ParseArgs
    \/ GetRecording
    \/ FindFile
    \/ ResolvePresets
    \/ FlagInProgress
    \/ Launch1
    \/ Launch2
    \/ Launch3
    \/ ReadLine
    \/ ReadEof
    \/ ExternalStop
    \/ Stage2Eof
    \/ Stage3Emit
    \/ Stage3Eof

Spec == Init /\ [][Next]_vars

\* The steps of the read loop
LoopStep == ReadLine \/ ReadEof

\* main, mythffmpeg and silence are running processes: in the loop main takes
\* its next step when it can, and a stage that can read end-of-stream reads it.
\* Nothing obliges the outside to stop tail, nor the analyzer to write a line.
FairSpec ==
    /\ Spec
    /\ WF_vars(LoopStep)
    /\ WF_vars(Stage2Eof)
    /\ WF_vars(Stage3Eof)

----------------------------------------------------------------------------
(* class PRESET under every command line, and under a client that           *)
(* constructs instances and calls getFromArg and getFromFile in any order.  *)
(* argdict is an attribute of the class: __init__ sets only self.logger and *)
(* both methods update self.argdict in place, so every instance reads and   *)
(* writes the one dictionary.                                               *)

\* Number of constructions and calls a client makes
MaxCalls == 4

\* every --preset with every --presetfile
PresetCommandLines ==
    [mode : {"job"}, preset : {None} \cup Overrides, presetfile : {None} \cup Files]

ParseAnyArgs == ParseArgsFrom(PresetCommandLines)

\* PRESET(logger), lines 57-59
ClientNew ==
    /\ pc = "client"
    /\ Len(calls) < MaxCalls
    /\ calls' = Append(calls, Call("PRESET", None, argdict))
    /\ UNCHANGED <<pc, exc, args, job, jobStatus, argdict, progId, log>>
    /\ UNCHANGED <<recvars, loopvars, procs>>

\* param.getFromArg(line) on an instance, lines 61-69
ClientGetFromArg ==
    /\ pc = "client"
    /\ calls # <<>>
    /\ Len(calls) < MaxCalls
    /\ \E line \in Overrides :
          /\ argdict' = getFromArg(argdict, line)
          /\ calls' = Append(calls, Call("getFromArg", line, getFromArg(argdict, line)))
          /\ log' = log \o getFromArgLog(line)
    /\ UNCHANGED <<pc, exc, args, job, jobStatus, progId>>
    /\ UNCHANGED <<recvars, loopvars, procs>>

\* param.getFromFile(filename, title, callsign) on an instance, lines 71-95
ClientGetFromFile ==
    /\ pc = "client"
    /\ calls # <<>>
    /\ Len(calls) < MaxCalls
    /\ \E filename \in Files :
          LET r == getFromFile(argdict, filename, Title, Callsign)
          IN  /\ argdict' = r.argdict
              /\ calls' = Append(calls, Call("getFromFile", filename, r.argdict))
              /\ log' = log \o r.log
              /\ pc' = IF r.raised THEN "raised" ELSE pc
              /\ exc' = IF r.raised THEN "re.error" ELSE exc
    /\ UNCHANGED <<args, job, jobStatus, progId>>
    /\ UNCHANGED <<recvars, loopvars, procs>>

\* main up to the launch of the analyzer, or a client of the class
PresetInit ==
    /\ \/ pc = "start" /\ commflagged \in {0, 1} /\ markup \in {<<>>, OldMarkup}
       \/ pc = "client" /\ commflagged = 0 /\ markup = <<>>
    /\ exc = "none"
    /\ args = [mode |-> "unparsed", preset |-> None, presetfile |-> None]
    /\ job = FALSE
    /\ jobStatus = <<"RUNNING", <<>>>>
    /\ argdict = DefaultArgdict
    /\ calls = <<>>
    /\ progId = <<>>
    /\ log = <<>>
    /\ breaks = 0
    /\ sent = <<>>
    /\ p1 = "none" /\ p2 = "none" /\ p3 = "none"
    /\ p3args = <<>>
    /\ buffered = 0
    /\ readLines = <<>>

PresetNext ==
    \/ ParseAnyArgs
    \/ GetRecording
    \/ FindFile
    \/ ResolvePresets
    \/ FlagInProgress
    \/ Launch1
    \/ Launch2
    \/ Launch3
    \/ ClientNew
    \/ ClientGetFromArg
    \/ ClientGetFromFile

PresetSpec == PresetInit /\ [][PresetNext]_vars

----------------------------------------------------------------------------
(* What the lines of the model say, written out by hand: the claims compare *)
(* what main computes with these                                            *)

Last(q) == q[Len(q)]

\* the two offsets of a cut line with at least two runs of digits
CutOffsets(line) ==
    CASE line = LineCutA   -> <<100, 250>>
      [] line = LineCutB   -> <<400, 500>>
      [] line = LineCutC   -> <<900, 950>>
      [] line = LineCutRev -> <<9, 5>>
      [] OTHER             -> <<>>

WellFormedCut(line) == CutOffsets(line) # <<>>

\* the text of its two marks in a player message
CutText(line) ==
    CASE line = LineCutA   -> <<"1", "0", "0", ":", "4", ",", "2", "5", "0", ":", "5">>
      [] line = LineCutB   -> <<"4", "0", "0", ":", "4", ",", "5", "0", "0", ":", "5">>
      [] line = LineCutC   -> <<"9", "0", "0", ":", "4", ",", "9", "5", "0", ":", "5">>
      [] line = LineCutRev -> <<"9", ":", "4", ",", "5", ":", "5">>

\* the well-formed cut lines among the lines, in order
CutsOf(lines) == SelectSeq(lines, WellFormedCut)

\* the markup after these cut lines: a start entry and an end entry for each
ExpectedMarkup(cuts) ==
    [i \in 1..(2 * Len(cuts)) |->
        IF i % 2 = 1 THEN <<CutOffsets(cuts[(i + 1) \div 2])[1], 4>>
        ELSE <<CutOffsets(cuts[i \div 2])[2], 5>>]

\* the backend command that announces these cuts
RECURSIVE ExpectedPairs(_)
ExpectedPairs(cuts) ==
    IF cuts = <<>> THEN <<>>
    ELSE IF Len(cuts) = 1 THEN CutText(cuts[1])
    ELSE CutText(cuts[1]) \o <<",">> \o ExpectedPairs(Tail(cuts))

ExpectedCommand(cuts) ==
    <<"MESSAGE[]:[]", "COMMFLAG_UPDATE ", "1", "0", "0", "1", "_", "2020-01-01", "T",
      "20:00:00", " ">> \o ExpectedPairs(cuts)

\* main is in the read loop, or has left it
InLoop == pc = "loop"
Finished == pc = "done"
LoopAborted == pc = "raised" /\ exc \in {"ValueError", "IndexError", "BackendError"}

----------------------------------------------------------------------------
(* Claims *)

\* C1: while the loop runs and when it has ended, the markup holds exactly
\* the marks of the well-formed cut lines read so far, a (start, end) pair per
\* line, in the order the lines were read, whatever other lines came between;
\* if the loop was aborted by an exception, those marks are still the head of
\* the markup.
C1_MarksInReadOrder ==
    LET expected == ExpectedMarkup(CutsOf(readLines))
    IN  /\ (InLoop \/ Finished) => markup = expected
        /\ LoopAborted => SubSeq(markup, 1, Len(expected)) = expected

C1_Witness ==
    /\ Finished
    /\ readLines = <<LineCutB, LineBogus, LineCutA>>
    /\ markup = <<<<400, 4>>, <<500, 5>>, <<100, 4>>, <<250, 5>>>>

\* C2: one backend command has been sent for each well-formed cut line read,
\* and the i-th is MESSAGE[]:[]COMMFLAG_UPDATE <progId> followed by the
\* start:4,end:5 pairs of the first i cut lines, in the order they were read.
C2_NotifyWholeList ==
    (InLoop \/ Finished \/ LoopAborted) =>
        LET cuts == CutsOf(readLines)
        IN  /\ Len(sent) = Len(cuts)
            /\ \A i \in 1..Len(sent) :
                   sent[i].mesg = ExpectedCommand(SubSeq(cuts, 1, i))

C2_Witness ==
    /\ readLines = <<LineCutA, LineCutB, LineCutC>>
    /\ Len(sent) = 3
    /\ sent[3].mesg =
         <<"MESSAGE[]:[]", "COMMFLAG_UPDATE ", "1", "0", "0", "1", "_", "2020-01-01", "T",
           "20:00:00", " ",
           "1", "0", "0", ":", "4", ",", "2", "5", "0", ":", "5", ",",
           "4", "0", "0", ":", "4", ",", "5", "0", "0", ":", "5", ",",
           "9", "0", "0", ":", "4", ",", "9", "5", "0", ":", "5">>


NoAt(line) == line = LineNoAt

IsWarning(entry) == entry.level = "WARNING"

\* C3: a line without '@' is handled as an unexpected tag: once such a line
\* has been read the session has not aborted, a warning has been logged, and
\* the markup and the break counter are those of the cut lines read.
C3_NoAtTolerated ==
    (\E i \in 1..Len(readLines) : NoAt(readLines[i])) =>
        /\ pc \in {"loop", "done"}
        /\ \E k \in 1..Len(log) : IsWarning(log[k])
        /\ markup = ExpectedMarkup(CutsOf(readLines))
        /\ breaks = Len(CutsOf(readLines))

\* C4: the step that reads bogus@hello raises nothing, leaves the markup, the
\* break counter and the flagging state as they are, sends nothing, logs
\* exactly one record, the warning that carries the tag, and leaves main in
\* the loop.
C4_UnknownTagStep ==
    [][(readLines' # readLines /\ Last(readLines') = LineBogus) =>
          /\ pc' = "loop"
          /\ exc' = "none"
          /\ markup' = markup
          /\ breaks' = breaks
          /\ commflagged' = commflagged
          /\ sent' = sent
          /\ log' = Append(log, [level |-> "WARNING",
                                 msg |-> <<"mythcommflag: ", "b", "o", "g", "u", "s">>])
      ]_vars

C4_Witness ==
    /\ pc = "loop"
    /\ readLines = <<LineCutA, LineBogus>>
    /\ markup = <<<<100, 4>>, <<250, 5>>>>
    /\ breaks = 1
    /\ Len(sent) = 1
    /\ IsWarning(Last(log))

BackendFailed(entry) ==
    entry.level = "ERR" /\ entry.msg[2] = "Backend message failed, response = "

\* C5: a response other than OK ends nothing.  The step that gets it logs
\* the error and leaves main in the loop with the mark appended and counted;
\* and in every state each command sent, whatever the responses to the
\* earlier ones, carries every mark up to its own, one error is logged for
\* each failed command, and the counter counts every cut.
C5_FailedSendStep ==
    (sent' # sent /\ Last(sent').result # "OK") =>
        /\ pc' = "loop"
        /\ exc' = "none"
        /\ Len(markup') = Len(markup) + 2
        /\ breaks' = breaks + 1
        /\ BackendFailed(Last(log'))

C5_FailedSendState ==
    (InLoop \/ Finished \/ LoopAborted) =>
        /\ exc # "BackendError"
        /\ breaks = Len(sent)
        /\ Len(markup) >= 2 * Len(sent)
        /\ Len(SelectSeq(log, BackendFailed))
             = Len(SelectSeq(sent, LAMBDA c : c.result # "OK"))
        /\ \A i \in 1..Len(sent) :
               sent[i].mesg = ExpectedCommand(SubSeq(CutsOf(readLines), 1, i))

C5_SendFailureTolerated == []C5_FailedSendState /\ [][C5_FailedSendStep]_vars

C5_Witness ==
    /\ Finished
    /\ readLines = <<LineCutA, LineCutB, LineInfo>>
    /\ sent[1].result = "FAILED"
    /\ sent[2].result = "OK"
    /\ sent[2].mesg = ExpectedCommand(<<LineCutA, LineCutB>>)
    /\ breaks = 2

\* C6: when the output has closed and the loop has ended, the session has
\* succeeded and reports as many breaks as well-formed cut lines were read:
\* the counter is that number, the recording is flagged, 'Detected <k>
\* adverts.' is logged last and, with a job, is the comment of the job, whose
\* status is 272; with no cut line the number is zero.
C6_ReportsBreakCount ==
    Finished =>
        LET k == Len(CutsOf(readLines))
            report == <<"Detected ", Digits[k + 1], " adverts.">>
        IN  /\ exc = "none"
            /\ breaks = k
            /\ commflagged = 1
            /\ Last(log) = [level |-> "INFO", msg |-> <<"mythcommflag: ">> \o report]
            /\ job => jobStatus = <<"272", report>>
            /\ (~job) => jobStatus = <<"RUNNING", <<>>>>

C6_Witness ==
    /\ Finished
    /\ job
    /\ readLines = <<>>
    /\ breaks = 0
    /\ jobStatus = <<"272", <<"Detected ", "0", " adverts.">>>>


LaunchFailed == pc = "raised" /\ exc = "OSError"

\* C7: when a stage has failed to launch and the session has aborted, no
\* stage launched before it is running.
C7_NoStageLeftRunning ==
    LaunchFailed => (p1 # "running" /\ p2 # "running" /\ p3 # "running")

\* C8: when a stage has failed to launch and the session has aborted, the
\* recording is not flagged as in progress.
C8_NotLeftInProgress == LaunchFailed => commflagged # 2

\* the session has ended on one of the fatal errors: recording not found,
\* local access not found, malformed pattern in the preset file, launch failure
FatalExit ==
    \/ pc = "exit1" /\ args.mode # "neither"
    \/ pc = "raised" /\ exc \in {"re.error", "OSError"}

\* C9: when the session has ended on a fatal error the flagging state of the
\* recording is a failure indicator: it is none of not flagged (0), flagged (1)
\* and in progress (2).
C9_FatalSetsFailure == FatalExit => commflagged \notin {0, 1, 2}

\* C10: the loop is left only by the step that reads end-of-stream (nothing
\* buffered, the analyzer gone), which ends in done; no step of main stops a
\* stage; and once tail has been stopped while main is in the loop, main
\* eventually is done with the recording flagged and the count reported.
C10_OnlyEofEndsLoop ==
    (pc = "loop" /\ pc' # "loop") => (buffered = 0 /\ p3 = "exited" /\ pc' = "done")

C10_MainStopsNoStage ==
    (pc' # pc \/ readLines' # readLines) =>
        /\ p1 = "running" => p1' = "running"
        /\ p2 = "running" => p2' = "running"
        /\ p3 = "running" => p3' = "running"

C10_EndOfStreamEndsSession ==
    /\ [][C10_OnlyEofEndsLoop]_vars
    /\ [][C10_MainStopsNoStage]_vars
    /\ (pc = "loop" /\ p1 = "exited") ~>
          (pc = "done" /\ commflagged = 1
             /\ Last(log).msg = <<"mythcommflag: ">> \o Detected(breaks))

\* a cut line with fewer than two runs of digits in its payload
ShortCut(line) == line \in {LineCutOne, LineCutNone}

\* C11: as long as every cut line read holds at least two runs of digits, the
\* markup is a list of (start, end) pairs, a break-start entry followed by a
\* break-end entry, whose offsets are not negative and whose start is less
\* than its end.
C11_StartBeforeEnd ==
    (\A i \in 1..Len(readLines) : ~ShortCut(readLines[i])) =>
        /\ Len(markup) % 2 = 0
        /\ \A k \in 1..(Len(markup) \div 2) :
              /\ markup[2 * k - 1][2] = 4
              /\ markup[2 * k][2] = 5
              /\ 0 <= markup[2 * k - 1][1]
              /\ markup[2 * k - 1][1] < markup[2 * k][1]

----------------------------------------------------------------------------
(* What the override strings and the preset files of the model say, written *)
(* out by hand: the claims compare what PRESET computes with these          *)

\* the six parameters and their built-in values
HandDefaults ==
    <<<<"thresh", <<"int", -7500>>>>, <<"minquiet", <<"float", 16>>>>,
      <<"mindetect", <<"int", 600>>>>, <<"minbreak", <<"int", 12000>>>>,
      <<"maxsep", <<"int", 12000>>>>, <<"pad", <<"float", 48>>>>>>

\* the number of comma-separated fields of an override string
FieldCount(s) ==
    CASE s = OverrideA     -> 3
      [] s = OverrideSeven -> 7
      [] s = OverrideBad   -> 1
      [] s = OverrideNan   -> 1
      [] s = OverrideInf   -> 2
      [] s = OverrideEmpty -> 1

\* what float() makes of the field for each parameter; None for a parameter
\* whose field is missing, empty or no number
HandFields(s) ==
    CASE s = OverrideA     -> <<<<"float", -7000>>, None, None, None, None, None>>
      [] s = OverrideSeven -> <<<<"float", 100>>, <<"float", 200>>, <<"float", 300>>,
                                <<"float", 400>>, <<"float", 500>>, <<"float", 600>>>>
      [] s = OverrideBad   -> <<None, None, None, None, None, None>>
      [] s = OverrideNan   -> <<<<"nan", 0>>, None, None, None, None, None>>
      [] s = OverrideInf   -> <<<<"float", 50>>, <<"inf", -1>>, None, None, None, None>>
      [] s = OverrideEmpty -> <<None, None, None, None, None, None>>

\* the store before the i-th entry of calls
Before(i) == IF i = 1 THEN HandDefaults ELSE calls[i - 1].store

\* the i-th entry of calls is the first resolution of the process
FirstPass(i) == \A j \in 1..(i - 1) : calls[j].op = "PRESET"

\* C12: every getFromArg leaves the six parameters in canonical order, gives
\* the k-th parameter the value of the k-th field when that field is a number,
\* and leaves it as it was otherwise; the parameters beyond the last field are
\* as they were before the call, which for the first resolution of a process
\* is their default; a seventh field changes nothing.
C12_PositionalFields ==
    \A i \in 1..Len(calls) :
        calls[i].op = "getFromArg" =>
            LET s      == calls[i].arg
                n      == FieldCount(s)
                before == Before(i)
                after  == calls[i].store
            IN  /\ Len(after) = 6
                /\ \A k \in 1..6 :
                      /\ after[k][1] = HandDefaults[k][1]
                      /\ k > n => after[k] = before[k]
                      /\ (k > n /\ FirstPass(i)) => after[k] = HandDefaults[k]
                      /\ k <= n => after[k][2] = IF HandFields(s)[k] = None
                                                 THEN before[k][2]
                                                 ELSE HandFields(s)[k]

C12_Witness ==
    /\ pc = "loop"
    /\ args.preset = OverrideInf
    /\ Len(calls) = 2
    /\ calls[2].op = "getFromArg"
    /\ argdict = <<<<"thresh", <<"float", 50>>>>, <<"minquiet", <<"inf", -1>>>>,
                   <<"mindetect", <<"int", 600>>>>, <<"minbreak", <<"int", 12000>>>>,
                   <<"maxsep", <<"int", 12000>>>>, <<"pad", <<"float", 48>>>>>>
    /\ \E c \in 1..Len(calls) : calls[c].arg = OverrideInf

\* the values of the line of a preset file that is applied, as for HandFields;
\* no line of FileBadRe, FileNoMatch or a missing file is applied
HandFileFields(f) ==
    CASE f = FileNews -> <<<<"float", -7000>>, None, None, None, None, None>>
      [] f = FileLate -> <<<<"float", 50>>, None, <<"float", 700>>, None, None, None>>
      [] OTHER        -> <<None, None, None, None, None, None>>

\* main has resolved the presets
Resolved == args.mode = "job" /\ pc \in {"flag", "launch1", "launch2", "launch3", "loop"}

\* C13: after every getFromArg and getFromFile, a parameter whose field is
\* empty or no number has the value it had before the call, and a parameter
\* whose field is a number has that number; and when main has resolved the
\* presets from the file whose line ^News,-70,,,,, matches the title, thresh
\* is -70 and the other five are the defaults.
C13_InvalidFieldKeepsValue ==
    /\ \A i \in 1..Len(calls) :
          calls[i].op # "PRESET" =>
              LET h == IF calls[i].op = "getFromArg" THEN HandFields(calls[i].arg)
                       ELSE HandFileFields(calls[i].arg)
              IN  \A k \in 1..6 :
                      calls[i].store[k] = IF h[k] = None THEN Before(i)[k]
                                          ELSE <<HandDefaults[k][1], h[k]>>
    /\ (Resolved /\ args.preset = None /\ args.presetfile = FileNews) =>
          argdict = <<<<"thresh", <<"float", -7000>>>>, <<"minquiet", <<"float", 16>>>>,
                      <<"mindetect", <<"int", 600>>>>, <<"minbreak", <<"int", 12000>>>>,
                      <<"maxsep", <<"int", 12000>>>>, <<"pad", <<"float", 48>>>>>>

C13_Witness ==
    /\ pc = "loop"
    /\ args.preset = None
    /\ args.presetfile = FileNews
    /\ argdict[1] = <<"thresh", <<"float", -7000>>>>
    /\ argdict[6] = <<"pad", <<"float", 48>>>>
    /\ p3args[3] = <<"-", "7", "0", ".", "0">>
    /\ p3args[4] = <<"0", ".", "1", "6">>
    /\ Len(p3args) = 8

\* the line of a preset file that is applied, stripped, as the log quotes it
HandFileLine(f) ==
    CASE f = FileNews -> <<"^", "N", "e", "w", "s", ",", "-", "7", "0", ",", ",", ",", ",", ",">>
      [] f = FileLate -> <<"b", "b", "c", ",", " ", "0", ".", "5", " ", ",", ",", "7">>
      [] OTHER        -> None

UsingPreset(entry) == Len(entry.msg) > 1 /\ entry.msg[2] = "Using preset \""

NoPresetFound(entry) ==
    Len(entry.msg) > 1 /\ entry.msg[2] = "No preset found for \""

\* the records a session of main logs from the call of getFromFile on
FileLog == SubSeq(log, 4, Len(log))

\* C14: every getFromFile leaves the store as it was, overlaid with the values
\* of the first line whose pattern matches the title or the callsign, whatever
\* the case of the letters, and with nothing of any later line; a file without
\* a matching line, and a file that cannot be opened, leave the store as it
\* was, which for the first resolution is the defaults.  In a session of main
\* that reads a file with a matching line, that line is the one line logged as
\* used, a malformed pattern after it raises nothing, and nothing is logged as
\* not found.
C14_FirstMatchWins ==
    /\ \A i \in 1..Len(calls) :
          calls[i].op = "getFromFile" =>
              LET h == HandFileFields(calls[i].arg)
              IN  /\ \A k \in 1..6 :
                        calls[i].store[k] = IF h[k] = None THEN Before(i)[k]
                                            ELSE <<HandDefaults[k][1], h[k]>>
                  /\ (HandFileLine(calls[i].arg) = None /\ FirstPass(i)) =>
                        calls[i].store = HandDefaults
    /\ (args.mode = "job" /\ args.preset = None /\ Len(calls) = 2
          /\ HandFileLine(args.presetfile) # None) =>
          /\ exc # "re.error"
          /\ Len(SelectSeq(FileLog, UsingPreset)) = 1
          /\ SelectSeq(FileLog, UsingPreset)[1].msg
               = <<"mythcommflag: ", "Using preset \"">>
                 \o HandFileLine(args.presetfile) \o <<"\"">>
          /\ SelectSeq(FileLog, NoPresetFound) = <<>>
    /\ (args.mode = "job" /\ args.preset = None /\ Len(calls) = 2
          /\ args.presetfile = FileNoMatch) =>
          /\ SelectSeq(FileLog, UsingPreset) = <<>>
          /\ Len(SelectSeq(FileLog, NoPresetFound)) = 1

C14_Witness ==
    /\ pc = "loop"
    /\ args.preset = None
    /\ args.presetfile = FileLate
    /\ calls[2] = [op |-> "getFromFile", arg |-> FileLate,
                   store |-> <<<<"thresh", <<"float", 50>>>>,
                               <<"minquiet", <<"float", 16>>>>,
                               <<"mindetect", <<"float", 700>>>>,
                               <<"minbreak", <<"int", 12000>>>>,
                               <<"maxsep", <<"int", 12000>>>>,
                               <<"pad", <<"float", 48>>>>>>]

\* main is past the resolution of the presets (lines 163-169)
PastPresets ==
    /\ args.mode = "job"
    /\ pc \in {"flag", "launch1", "launch2", "launch3", "loop", "raised"}

\* the entries of calls that are resolution passes
Passes == SelectSeq(calls, LAMBDA c : c.op # "PRESET")

FilePasses == SelectSeq(calls, LAMBDA c : c.op = "getFromFile")

UsingPresetFile(entry) ==
    Len(entry.msg) > 1 /\ entry.msg[2] = "Using preset file \""

OverrideGiven == args.preset # None /\ args.preset # <<>>

Finite(x) == Len(x) = 2 /\ x[1] \in {"int", "float"}

\* a store holds the six parameters, in canonical order, each a finite number
WellFormedStore(store) ==
    /\ Len(store) = 6
    /\ \A k \in 1..6 : store[k][1] = HandDefaults[k][1] /\ Finite(store[k][2])

\* the text of a finite number: an optional sign, digits, and at most one point
FiniteText(s) ==
    /\ s # <<>>
    /\ \A i \in 1..Len(s) : s[i] \in {"0", "1", "2", "3", "4", "5", "6", "7", "8", "9", "."}
                             \/ (i = 1 /\ s[i] = "-")

\* C16: the store, after every construction and every resolution pass, holds
\* exactly the six parameters in canonical order, each a finite number and
\* none of them None, and every preset argument handed to the analyzer is the
\* text of a finite number.
C16_StoreIsFinite ==
    /\ WellFormedStore(argdict)
    /\ \A i \in 1..Len(calls) : WellFormedStore(calls[i].store)
    /\ \A i \in 3..Len(p3args) : FiniteText(p3args[i])

\* C17: a getFromArg that follows a getFromArg of the same string leaves the
\* store as the first left it.
C17_SameOverrideTwice ==
    \A i \in 2..Len(calls) :
        (calls[i].op = "getFromArg" /\ calls[i - 1].op = "getFromArg"
           /\ calls[i].arg = calls[i - 1].arg) =>
            /\ calls[i].store = calls[i - 1].store
            /\ i = Len(calls) => argdict = calls[i - 1].store

C17_Witness ==
    /\ pc = "client"
    /\ Len(calls) = 4
    /\ calls[1].op = "PRESET"
    /\ calls[2] = [op |-> "getFromArg", arg |-> OverrideSeven,
                   store |-> <<<<"thresh", <<"float", 100>>>>,
                               <<"minquiet", <<"float", 200>>>>,
                               <<"mindetect", <<"float", 300>>>>,
                               <<"minbreak", <<"float", 400>>>>,
                               <<"maxsep", <<"float", 500>>>>,
                               <<"pad", <<"float", 600>>>>>>]
    /\ calls[3].op = "getFromArg" /\ calls[3].arg = OverrideA
    /\ calls[4].op = "getFromArg" /\ calls[4].arg = OverrideA
    /\ calls[3].store # calls[2].store
    /\ argdict = calls[3].store

\* C18: in every state the markup holds as many break-start entries as
\* break-end entries: a cut line adds both or neither, also when main raises
\* while it handles the line.
C18_CutIsAllOrNothing ==
    Len(SelectSeq(markup, LAMBDA e : e[2] = 4))
      = Len(SelectSeq(markup, LAMBDA e : e[2] = 5))

\* C19: from the launch of the first stage on, and as long as main is in the
\* read loop, the recording is flagged as in progress, and the markup is empty
\* when the first stage is launched; the step that flags it as in progress
\* empties the markup; the flag leaves in progress only for finished, and
\* becomes finished only by the step that reads end-of-stream (nothing
\* buffered, the analyzer gone), which ends the loop; and once main is done
\* the recording is flagged as finished and no step reads a line, changes the
\* markup or the flag, or sends a command.
C19_FlagState ==
    /\ pc \in {"launch1", "launch2", "launch3", "loop"} => commflagged = 2
    /\ pc = "launch1" => (markup = <<>> /\ p1 = "none")
    /\ pc = "done" => commflagged = 1

C19_FlagStep ==
    /\ (p1 = "none" /\ p1' # "none") => (commflagged = 2 /\ markup = <<>>)
    /\ (commflagged # 2 /\ commflagged' = 2) => (markup' = <<>> /\ p1' = "none")
    /\ (commflagged = 2 /\ commflagged' # 2) => commflagged' = 1
    /\ (commflagged' # commflagged /\ commflagged' = 1) =>
          (pc = "loop" /\ buffered = 0 /\ p3 = "exited" /\ pc' = "done")
    /\ pc = "done" =>
          /\ pc' = "done"
          /\ UNCHANGED <<markup, sent, readLines, commflagged, breaks>>

C19_FlagFollowsSession == []C19_FlagState /\ [][C19_FlagStep]_vars

C19_Witness ==
    /\ pc = "done"
    /\ commflagged = 1
    /\ readLines = <<LineInfo, LineCutB>>
    /\ markup = <<<<400, 4>>, <<500, 5>>>>
    /\ Len(sent) = 1
    /\ p3 = "exited"

\* the built-in defaults overlaid with the numeric fields of an override string
DefaultsWith(s) ==
    [k \in 1..6 |-> IF HandFields(s)[k] = None THEN HandDefaults[k]
                    ELSE <<HandDefaults[k][1], HandFields(s)[k]>>]

\* C20: whatever constructions and calls came before, the store after
\* getFromArg(s) is the built-in defaults overlaid with the numeric fields of
\* s, and the store of a PRESET just constructed is the built-in defaults.
C20_DependsOnlyOnString ==
    \A i \in 1..Len(calls) :
        /\ calls[i].op = "getFromArg" => calls[i].store = DefaultsWith(calls[i].arg)
        /\ calls[i].op = "PRESET" => calls[i].store = HandDefaults

====
